---- MODULE Spec2Model ----
(***************************************************************************)
(* Model of the AMD64 JIT call-site assembler of LLGL                      *)
(* (sources/JIT/Arch/AMD64/AMD64Assembler.cpp, AMD64Opcode.h).             *)
(*                                                                         *)
(* The CodeBuffer is a sequence of bytes (0..255).  Multi-byte values      *)
(* (immediates, offsets, addresses, argument payloads) are sequences of    *)
(* bytes, least significant byte first, so that 32- and 64-bit quantities  *)
(* keep their full width.                                                  *)
(***************************************************************************)
EXTENDS Integers, Sequences, FiniteSets, TLC

VARIABLES
    abi,      \* build configuration: which branch of '#ifdef _WIN32' was compiled
    args,     \* GetArgs(): the argument list of the call being assembled
    pc,       \* position of the build: "start", "begun", "called", "ended";
              \* "enc", "emitted" for a single primitive; "par" for a concurrent build; "vf" for a vertex format
    code,     \* the CodeBuffer: the bytes written so far
    insns,    \* the emission primitives invoked so far, in order (history of 'code')
    wfc,      \* arguments and final locals of the last WriteFuncCall
    failed,   \* TRUE iff an operation reported an error to its caller
    thr,      \* the assemblers of a concurrent build: their buffers, positions and locals
    vf        \* a VertexFormat: attributes_, formatSize_ and the outcome of the last call

vars == <<abi, args, pc, code, insns, wfc, failed, thr, vf>>

(***************************************************************************)
(* Bounds of the model                                                     *)
(***************************************************************************)
\* longest argument list made of two runs of equal-typed arguments
MaxArgs == 9
\* longest argument list with an arbitrary mix of argument types
MaxMixed == 3

(***************************************************************************)
(* Registers (enum Reg).  The ordinal of a general-purpose register is its *)
(* hardware number; the XMM registers follow R15.                          *)
(***************************************************************************)
RAX == 0
RCX == 1
RDX == 2
RBX == 3
RSP == 4
RBP == 5
RSI == 6
RDI == 7
R8 == 8
R9 == 9
R10 == 10
R15 == 15
XMM0 == 16
XMM1 == 17
XMM2 == 18
XMM3 == 19
XMM4 == 20
XMM5 == 21
XMM6 == 22
XMM7 == 23

GPRegs == RAX..R15
XMMRegs == XMM0..XMM7
\* placeholder for an operand an instruction does not have
NoReg == 0 - 1

Is64Reg(reg) == reg >= RAX /\ reg <= R15

RegByte(reg) == reg % 8

(***************************************************************************)
(* Bit arithmetic on bytes                                                 *)
(***************************************************************************)
RECURSIVE BitOr(_, _)
BitOr(a, b) ==
    IF a = 0 THEN b
    ELSE IF b = 0 THEN a
    ELSE (IF a % 2 = 1 \/ b % 2 = 1 THEN 1 ELSE 0) + 2 * BitOr(a \div 2, b \div 2)

RECURSIVE BitAnd(_, _)
BitAnd(a, b) ==
    IF a = 0 \/ b = 0 THEN 0
    ELSE (IF a % 2 = 1 /\ b % 2 = 1 THEN 1 ELSE 0) + 2 * BitAnd(a \div 2, b \div 2)

Shl3(a) == a * 8

\* conversion to std::uint8_t
U8(a) == a % 256

(***************************************************************************)
(* AMD64Opcode.h                                                           *)
(***************************************************************************)
REX_Prefix == 64
REX_W == 8
REX_R == 4
REX_B == 1

Operand_Mod01 == 64
Operand_Mod10 == 128
Operand_Mod11 == 192

Opcode_PushImm == 104
Opcode_PushImm8 == 106
Opcode_PushReg == 80
Opcode_PopReg == 88
Opcode_AddImm == 129
Opcode_SubImm == 129
Opcode_DivReg == 247
Opcode_MovRegImm == 184
Opcode_MovMemImm == 199
Opcode_MovMemReg == 137
Opcode_RetNear == 195
Opcode_RetFar == 203
Opcode_RetNearImm16 == 194
Opcode_RetFarImm16 == 202
Opcode_CallNear == 16
Opcode_CallPrefix == 255

(***************************************************************************)
(* Values as little-endian byte strings                                    *)
(***************************************************************************)
Byte == 0..255

\* the n low bytes of a small natural number
RECURSIVE Bytes(_, _)
Bytes(n, v) == IF n = 0 THEN <<>> ELSE <<v % 256>> \o Bytes(n - 1, v \div 256)

\* the natural number a byte string stands for (small values only)
RECURSIVE ValueOf(_)
ValueOf(bs) == IF bs = <<>> THEN 0 ELSE bs[1] + 256 * ValueOf(Tail(bs))

\* integral conversion of an unsigned value to a wider unsigned type
ZeroExtend(bs, n) == bs \o [i \in 1..(n - Len(bs)) |-> 0]

IsZero(bs) == \A i \in 1..Len(bs) : bs[i] = 0

\* offset > UCHAR_MAX for a 32-bit unsigned offset
AboveUChar(bs) == \E i \in 2..Len(bs) : bs[i] # 0

(***************************************************************************)
(* Byte stream writers of the assembler base class                         *)
(***************************************************************************)
IsLittleEndian == TRUE

Ordered(bs) == IF IsLittleEndian THEN bs ELSE [i \in 1..Len(bs) |-> bs[Len(bs) + 1 - i]]

WriteByte(b) == <<U8(b)>>
WriteWord(w) == Ordered(SubSeq(w, 1, 2))
WriteDWord(d) == Ordered(SubSeq(d, 1, 4))
WriteQWord(q) == Ordered(SubSeq(q, 1, 8))

(***************************************************************************)
(* An emitted instruction: the primitive that was called, its register     *)
(* operands, its immediate and displacement, and the bytes it appended.    *)
(***************************************************************************)
Insn(op, r1, r2, imm, disp, bytes) ==
    [op |-> op, r1 |-> r1, r2 |-> r2, imm |-> imm, disp |-> disp, bytes |-> bytes]

WriteREXOpt(reg) ==
    LET w == IF Is64Reg(reg) THEN REX_W ELSE 0
        b == IF Is64Reg(reg) /\ reg >= R8 THEN REX_B ELSE 0
        prefix == BitOr(w, b)
    IN  IF prefix # 0 THEN WriteByte(BitOr(REX_Prefix, prefix)) ELSE <<>>

PushReg(reg) ==
    Insn("PushReg", reg, NoReg, <<>>, <<>>,
         WriteByte(BitOr(Opcode_PushReg, RegByte(reg))))

PushImm8(byte) ==
    Insn("PushImm8", NoReg, NoReg, byte, <<>>,
         WriteByte(Opcode_PushImm8) \o WriteByte(byte[1]))

PushImm32(dword) ==
    Insn("PushImm32", NoReg, NoReg, dword, <<>>,
         WriteByte(Opcode_PushImm) \o WriteDWord(dword))

\* a 16-bit push: operand-size prefix and a 2-byte immediate
PushImm16Narrow(word) ==
    Insn("PushImm32", NoReg, NoReg, word, <<>>,
         WriteByte(102) \o WriteByte(Opcode_PushImm) \o WriteWord(word))

PushImm16(word) == PushImm32(ZeroExtend(word, 4))

PopReg(reg) ==
    Insn("PopReg", reg, NoReg, <<>>, <<>>,
         WriteByte(BitOr(Opcode_PopReg, RegByte(reg))))

MovReg(dst, src) ==
    Insn("MovReg", dst, src, <<>>, <<>>,
         WriteREXOpt(dst)
         \o WriteByte(Opcode_MovMemReg)
         \o WriteByte(BitOr(BitOr(Operand_Mod11, Shl3(RegByte(src))), RegByte(dst))))

\* the opcode without the register bits: always loads EAX
MovRegImm32NoReg(reg, dword) ==
    Insn("MovRegImm32", reg, NoReg, dword, <<>>,
         WriteByte(Opcode_MovRegImm) \o WriteDWord(dword))

MovRegImm32(reg, dword) ==
    Insn("MovRegImm32", reg, NoReg, dword, <<>>,
         WriteByte(BitOr(Opcode_MovRegImm, RegByte(reg))) \o WriteDWord(dword))

MovRegImm64(reg, qword) ==
    Insn("MovRegImm64", reg, NoReg, qword, <<>>,
         WriteREXOpt(reg)
         \o WriteByte(BitOr(Opcode_MovRegImm, RegByte(reg)))
         \o WriteQWord(qword))

\* the mod bits chosen from the offset
DispMod(offset) ==
    IF ~IsZero(offset)
    THEN IF AboveUChar(offset) THEN Operand_Mod10 ELSE Operand_Mod01
    ELSE 0

\* the optional displacement bytes
DispBytes(offset) ==
    IF ~IsZero(offset)
    THEN IF AboveUChar(offset) THEN WriteDWord(offset) ELSE WriteByte(offset[1])
    ELSE <<>>

MovMemImm32(reg, dword, offset) ==
    Insn("MovMemImm32", reg, NoReg, dword, offset,
         WriteREXOpt(reg)
         \o WriteByte(Opcode_MovMemImm)
         \o WriteByte(BitOr(DispMod(offset), RegByte(reg)))
         \o DispBytes(offset)
         \o WriteDWord(dword))

MovMemReg(dstMemReg, srcReg, offset) ==
    Insn("MovMemReg", dstMemReg, srcReg, <<>>, offset,
         WriteREXOpt(srcReg)
         \o WriteByte(Opcode_MovMemReg)
         \o WriteByte(BitOr(BitOr(DispMod(offset), Shl3(RegByte(srcReg))), RegByte(dstMemReg)))
         \o DispBytes(offset))

AddImm32(dst, dword) ==
    Insn("AddImm32", dst, NoReg, dword, <<>>,
         WriteREXOpt(dst)
         \o WriteByte(Opcode_AddImm)
         \o WriteByte(BitOr(Operand_Mod11, RegByte(dst)))
         \o WriteDWord(dword))

SubImm32(dst, dword) ==
    Insn("SubImm32", dst, NoReg, dword, <<>>,
         WriteREXOpt(dst)
         \o WriteByte(Opcode_SubImm)
         \o WriteByte(BitOr(BitOr(Operand_Mod11, Shl3(5)), RegByte(dst)))
         \o WriteDWord(dword))

DivReg(src) ==
    Insn("DivReg", src, NoReg, <<>>, <<>>,
         WriteREXOpt(src)
         \o WriteByte(Opcode_DivReg)
         \o WriteByte(BitOr(BitOr(Operand_Mod11, Shl3(6)), RegByte(src))))

\* the sub-opcode /4 (jmp) in place of /2 (call)
CallNearAsJmp(reg) ==
    Insn("CallNear", reg, NoReg, <<>>, <<>>,
         WriteByte(Opcode_CallPrefix)
         \o WriteByte(BitOr(BitOr(32, Operand_Mod11), RegByte(reg))))

CallNear(reg) ==
    Insn("CallNear", reg, NoReg, <<>>, <<>>,
         WriteByte(Opcode_CallPrefix)
         \o WriteByte(BitOr(BitOr(Opcode_CallNear, Operand_Mod11), RegByte(reg))))

RetNear(word) ==
    Insn("RetNear", NoReg, NoReg, word, <<>>,
         IF ~IsZero(word)
         THEN WriteByte(Opcode_RetNearImm16) \o WriteWord(word)
         ELSE WriteByte(Opcode_RetNear))

RetFar(word) ==
    Insn("RetFar", NoReg, NoReg, word, <<>>,
         IF ~IsZero(word)
         THEN WriteByte(Opcode_RetFarImm16) \o WriteWord(word)
         ELSE WriteByte(Opcode_RetFar))

\* the bytes a sequence of primitives appended
RECURSIVE Flatten(_)
Flatten(is) == IF is = <<>> THEN <<>> ELSE is[1].bytes \o Flatten(Tail(is))

(***************************************************************************)
(* Parameter-register tables: one pair per branch of '#ifdef _WIN32'       *)
(***************************************************************************)
ABIs == {"Win64", "SysV"}

\* a parameter table with one register listed twice
g_amd64IntParamsDup(a) ==
    IF a = "Win64"
    THEN <<RCX, RDX, R8, R8>>
    ELSE <<RDI, RSI, RDX, RCX, R8, R8>>

g_amd64IntParams(a) ==
    IF a = "Win64"
    THEN <<RCX, RDX, R8, R9>>
    ELSE <<RDI, RSI, RDX, RCX, R8, R9>>

g_amd64FltParams(a) ==
    IF a = "Win64"
    THEN <<XMM0, XMM1, XMM2, XMM3>>
    ELSE <<XMM0, XMM1, XMM2, XMM3, XMM4, XMM5, XMM6, XMM7>>

g_amd64IntParamsCount(a) == Len(g_amd64IntParams(a))
g_amd64FltParamsCount(a) == Len(g_amd64FltParams(a))

(***************************************************************************)
(* Arguments: a type tag and the 8 bytes of the value union                *)
(***************************************************************************)
ArgTypes == {"Byte", "Word", "DWord", "QWord", "Ptr", "Float", "Double"}

IsFloat(type) == type \in {"Float", "Double"}

\* members of the value union: each reads the low bytes of the same storage
I8(arg) == SubSeq(arg.value, 1, 1)
I16(arg) == SubSeq(arg.value, 1, 2)
I32(arg) == SubSeq(arg.value, 1, 4)
I64(arg) == SubSeq(arg.value, 1, 8)

\* values of JITCallConv
JITCallConvs == {"CDecl", "StdCall"}

\* std::size_t ~0: equal to no index of an argument list
NoIndex == 0 - 1

(***************************************************************************)
(* WriteFuncCall, first loop: move the first arguments into registers      *)
(***************************************************************************)
\* the integer branch without its test of the cursor against the table size:
\* past the table the register keeps its initial value
ClassifyNoLimit(a, isFloat, numIntRegs, numFltRegs) ==
    IF isFloat /\ numFltRegs < g_amd64FltParamsCount(a)
    THEN [cls |-> "flt", dstReg |-> g_amd64FltParams(a)[numFltRegs + 1]]
    ELSE IF ~isFloat
    THEN [cls |-> "int",
          dstReg |-> IF numIntRegs < g_amd64IntParamsCount(a)
                     THEN g_amd64IntParams(a)[numIntRegs + 1] ELSE R10]
    ELSE [cls |-> "break", dstReg |-> R10]

\* 'Determine destination register for argument': the branch taken of the
\* 'if / else if / else break' and the register it selects
Classify(a, isFloat, numIntRegs, numFltRegs) ==
    IF isFloat /\ numFltRegs < g_amd64FltParamsCount(a)
    THEN [cls |-> "flt", dstReg |-> g_amd64FltParams(a)[numFltRegs + 1]]
    ELSE IF ~isFloat /\ numIntRegs < g_amd64IntParamsCount(a)
    THEN [cls |-> "int", dstReg |-> g_amd64IntParams(a)[numIntRegs + 1]]
    ELSE [cls |-> "break", dstReg |-> R10]

\* the load chosen by the argument type alone, without the test for R8..R15
LoadArgByType(dstReg, arg) ==
    CASE arg.type = "Byte"   -> <<MovRegImm32(dstReg, ZeroExtend(I8(arg), 4))>>
      [] arg.type = "Word"   -> <<MovRegImm32(dstReg, ZeroExtend(I16(arg), 4))>>
      [] arg.type = "DWord"  -> <<MovRegImm32(dstReg, I32(arg))>>
      [] arg.type = "QWord"  -> <<MovRegImm64(dstReg, I64(arg))>>
      [] arg.type = "Ptr"    -> <<MovRegImm64(dstReg, I64(arg))>>
      [] arg.type = "Float"  -> <<>>
      [] arg.type = "Double" -> <<>>

\* 'Move value into destination register': the primitives called for one argument
LoadArg(dstReg, arg) ==
    IF dstReg >= R8 /\ dstReg <= R15
    THEN <<MovRegImm64(dstReg, I64(arg))>>
    ELSE CASE arg.type = "Byte"   -> <<MovRegImm32(dstReg, ZeroExtend(I8(arg), 4))>>
           [] arg.type = "Word"   -> <<MovRegImm32(dstReg, ZeroExtend(I16(arg), 4))>>
           [] arg.type = "DWord"  -> <<MovRegImm32(dstReg, I32(arg))>>
           [] arg.type = "QWord"  -> <<MovRegImm64(dstReg, I64(arg))>>
           [] arg.type = "Ptr"    -> <<MovRegImm64(dstReg, I64(arg))>>
           [] arg.type = "Float"  -> <<>>
           [] arg.type = "Double" -> <<>>

RegPassStart ==
    [numIntRegs |-> 0, numFltRegs |-> 0, lastInt |-> NoIndex, lastFlt |-> NoIndex,
     dstRegs |-> <<>>, insns |-> <<>>]

\* the body of the first loop for argument arg with index i (0-based) when no
\* 'break' is taken: the locals after it, from the locals in st
RegIter(a, arg, i, st) ==
    LET sel == Classify(a, IsFloat(arg.type), st.numIntRegs, st.numFltRegs)
        cls == sel.cls
        dstReg == sel.dstReg
    IN  [numIntRegs |-> IF cls = "int" THEN st.numIntRegs + 1 ELSE st.numIntRegs,
         numFltRegs |-> IF cls = "flt" THEN st.numFltRegs + 1 ELSE st.numFltRegs,
         lastInt |-> IF cls = "int" THEN i ELSE st.lastInt,
         lastFlt |-> IF cls = "flt" THEN i ELSE st.lastFlt,
         dstRegs |-> Append(st.dstRegs, dstReg),
         insns |-> st.insns \o LoadArg(dstReg, arg)]

\* iteration i (0-based) of the first loop, from the locals in st
RECURSIVE RegPass(_, _, _, _)
RegPass(a, as, i, st) ==
    IF ~(i < Len(as)) THEN st
    ELSE
        LET arg == as[i + 1]
            sel == Classify(a, IsFloat(arg.type), st.numIntRegs, st.numFltRegs)
        IN  IF sel.cls = "break" THEN st
            ELSE RegPass(a, as, i + 1, RegIter(a, arg, i, st))

(***************************************************************************)
(* WriteFuncCall, second loop: push the remaining arguments                *)
(***************************************************************************)
\* 'Push argument onto stack': the primitives called for one argument
SpillArg(arg) ==
    CASE arg.type = "Byte"   -> <<PushImm8(I8(arg))>>
      [] arg.type = "Word"   -> <<PushImm16(I16(arg))>>
      [] arg.type = "DWord"  -> <<PushImm32(I32(arg))>>
      [] arg.type = "Float"  -> <<PushImm32(I32(arg))>>
      [] arg.type = "QWord"  -> <<>>
      [] arg.type = "Ptr"    -> <<>>
      [] arg.type = "Double" -> <<>>

\* the check of the second loop looking at the integer index only
AlreadyInRegIntOnly(isFloat, iRev, lastInt, lastFlt) == iRev = lastInt

\* 'Check if argument has already been moved into a register'
AlreadyInReg(isFloat, iRev, lastInt, lastFlt) ==
    (isFloat /\ iRev = lastFlt) \/ (~isFloat /\ iRev = lastInt)

StackPassStart == [visited |-> <<>>, pushed |-> <<>>, insns |-> <<>>]

\* iteration i (0-based) of the second loop; 'visited' lists the indices that
\* reached the switch, 'pushed' those for which a push was emitted
RECURSIVE StackPass(_, _, _, _, _)
StackPass(as, i, lastInt, lastFlt, st) ==
    IF ~(i < Len(as)) THEN st
    ELSE
        LET iRev == Len(as) - i - 1
            arg == as[iRev + 1]
        IN  IF AlreadyInReg(IsFloat(arg.type), iRev, lastInt, lastFlt) THEN st
            ELSE StackPass(as, i + 1, lastInt, lastFlt,
                    [visited |-> Append(st.visited, iRev),
                     pushed |-> IF SpillArg(arg) # <<>> THEN Append(st.pushed, iRev)
                                ELSE st.pushed,
                     insns |-> st.insns \o SpillArg(arg)])

\* the call through the first integer parameter register
CallInsnsViaRCX(addr) == <<MovRegImm64(RCX, addr), CallNear(RCX)>>

\* 'Write call instruction'
CallInsns(addr) == <<MovRegImm64(RAX, addr), CallNear(RAX)>>

\* the whole of WriteFuncCall: its final locals and the primitives it called
WriteFuncCallRun(a, as, addr, conv, farCall) ==
    LET rp == RegPass(a, as, 0, RegPassStart)
        sp == StackPass(as, 0, rp.lastInt, rp.lastFlt, StackPassStart)
    IN  [addr |-> addr, conv |-> conv, farCall |-> farCall,
         numIntRegs |-> rp.numIntRegs, numFltRegs |-> rp.numFltRegs,
         lastInt |-> rp.lastInt, lastFlt |-> rp.lastFlt,
         dstRegs |-> rp.dstRegs, visited |-> sp.visited, pushed |-> sp.pushed,
         insns |-> rp.insns \o sp.insns \o CallInsns(addr)]

BeginInsns == <<PushReg(RBP), MovReg(RBP, RSP), SubImm32(RSP, Bytes(4, 32))>>

\* an epilogue that releases a frame of another size
EndInsnsOtherFrame == <<AddImm32(RSP, Bytes(4, 40)), PopReg(RBP), RetNear(Bytes(2, 0))>>

EndInsns == <<AddImm32(RSP, Bytes(4, 32)), PopReg(RBP), RetNear(Bytes(2, 0))>>

(***************************************************************************)
(* Inputs                                                                  *)
(***************************************************************************)
\* argument payloads: 42, and a value with bits set in every byte
Payloads == {Bytes(8, 42), <<239, 205, 171, 137, 103, 69, 35, 129>>}

\* addresses of the function to call
Addrs == {<<16, 32, 64, 0, 0, 127, 0, 0>>}

Run(t, n) == [i \in 1..n |-> t]

TwoRunLists ==
    {Run(q[1], q[2]) \o Run(q[3], q[4]) :
        q \in {r \in ArgTypes \X (0..MaxArgs) \X ArgTypes \X (0..MaxArgs) :
                  r[2] + r[4] <= MaxArgs}}

MixedLists == UNION {[1..n -> ArgTypes] : n \in 0..MaxMixed}

TypeLists == TwoRunLists \cup MixedLists

MkArgs(ts, p) == [i \in 1..Len(ts) |-> [type |-> ts[i], value |-> p]]

ArgLists == {MkArgs(ts, p) : ts \in TypeLists, p \in Payloads}

\* no concurrent build
NoThreads == <<>>

\* no vertex format
NoFormat == <<>>

NoCall ==
    [addr |-> <<>>, conv |-> "CDecl", farCall |-> FALSE,
     numIntRegs |-> 0, numFltRegs |-> 0, lastInt |-> NoIndex, lastFlt |-> NoIndex,
     dstRegs |-> <<>>, visited |-> <<>>, pushed |-> <<>>, insns |-> <<>>]

(***************************************************************************)
(* Building one trampoline: Begin, WriteFuncCall, End                      *)
(***************************************************************************)
Init ==
    /\ abi \in ABIs
    /\ args \in ArgLists
    /\ pc = "start"
    /\ code = <<>>
    /\ insns = <<>>
    /\ wfc = NoCall
    /\ failed = FALSE
    /\ thr = NoThreads
    /\ vf = NoFormat

Begin ==
    /\ pc = "start"
    /\ pc' = "begun"
    /\ insns' = insns \o BeginInsns
    /\ code' = code \o Flatten(BeginInsns)
    /\ UNCHANGED <<abi, args, wfc, failed, thr, vf>>

WriteFuncCall(addr, conv, farCall) ==
    /\ pc = "begun"
    /\ pc' = "called"
    /\ wfc' = WriteFuncCallRun(abi, args, addr, conv, farCall)
    /\ insns' = insns \o wfc'.insns
    /\ code' = code \o Flatten(wfc'.insns)
    /\ UNCHANGED <<abi, args, failed, thr, vf>>

End ==
    /\ pc = "called"
    /\ pc' = "ended"
    /\ insns' = insns \o EndInsns
    /\ code' = code \o Flatten(EndInsns)
    /\ UNCHANGED <<abi, args, wfc, failed, thr, vf>>

Next ==
    \/ Begin
    \/ \E addr \in Addrs, conv \in JITCallConvs, farCall \in BOOLEAN :
          WriteFuncCall(addr, conv, farCall)
    \/ End

Spec == Init /\ [][Next]_vars


(***************************************************************************)
(* The emission primitives on their own: one primitive applied to every    *)
(* choice of operands, appended to an empty buffer or after a prologue     *)
(***************************************************************************)
EncImm32s == {Bytes(4, 2457), <<255, 255, 255, 255>>}
EncImm64s == Payloads
EncOffsets ==
    {Bytes(4, 0), Bytes(4, 26), Bytes(4, 127), Bytes(4, 128), Bytes(4, 255),
     Bytes(4, 256), <<241, 255, 255, 255>>}
EncWords == {Bytes(2, 0), Bytes(2, 8)}

InitEnc ==
    /\ abi \in ABIs
    /\ args = <<>>
    /\ pc = "enc"
    /\ insns \in {<<>>, BeginInsns}
    /\ code = Flatten(insns)
    /\ wfc = NoCall
    /\ failed = FALSE
    /\ thr = NoThreads
    /\ vf = NoFormat

\* a primitive that writes at the start of the buffer instead of its end
EmitAtStart(insn) ==
    /\ pc = "enc"
    /\ pc' = "emitted"
    /\ insns' = Append(insns, insn)
    /\ code' = insn.bytes \o SubSeq(code, Len(insn.bytes) + 1, Len(code))
    /\ UNCHANGED <<abi, args, wfc, failed, thr, vf>>

Emit(insn) ==
    /\ pc = "enc"
    /\ pc' = "emitted"
    /\ insns' = Append(insns, insn)
    /\ code' = code \o insn.bytes
    /\ UNCHANGED <<abi, args, wfc, failed, thr, vf>>

EmitPushReg == \E r \in GPRegs : Emit(PushReg(r))
EmitPushImm8 == \E b \in {<<42>>, <<255>>} : Emit(PushImm8(b))
EmitPushImm16 == \E w \in EncWords : Emit(PushImm16(w))
EmitPushImm32 == \E d \in EncImm32s : Emit(PushImm32(d))
EmitPopReg == \E r \in GPRegs : Emit(PopReg(r))
EmitMovReg == \E d \in GPRegs, s \in GPRegs : Emit(MovReg(d, s))
EmitMovRegImm32 == \E r \in GPRegs, d \in EncImm32s : Emit(MovRegImm32(r, d))
EmitMovRegImm64 == \E r \in GPRegs, q \in EncImm64s : Emit(MovRegImm64(r, q))
EmitMovMemImm32 ==
    \E r \in GPRegs, d \in EncImm32s, o \in EncOffsets : Emit(MovMemImm32(r, d, o))
EmitMovMemReg ==
    \E d \in GPRegs, s \in GPRegs, o \in EncOffsets : Emit(MovMemReg(d, s, o))
EmitAddImm32 == \E r \in GPRegs, d \in EncImm32s : Emit(AddImm32(r, d))
EmitSubImm32 == \E r \in GPRegs, d \in EncImm32s : Emit(SubImm32(r, d))
EmitDivReg == \E r \in GPRegs : Emit(DivReg(r))
EmitCallNear == \E r \in GPRegs : Emit(CallNear(r))
EmitRetNear == \E w \in EncWords : Emit(RetNear(w))
EmitRetFar == \E w \in EncWords : Emit(RetFar(w))

NextEnc ==
    \/ EmitPushReg
    \/ EmitPushImm8
    \/ EmitPushImm16
    \/ EmitPushImm32
    \/ EmitPopReg
    \/ EmitMovReg
    \/ EmitMovRegImm32
    \/ EmitMovRegImm64
    \/ EmitMovMemImm32
    \/ EmitMovMemReg
    \/ EmitAddImm32
    \/ EmitSubImm32
    \/ EmitDivReg
    \/ EmitCallNear
    \/ EmitRetNear
    \/ EmitRetFar

SpecEnc == InitEnc /\ [][NextEnc]_vars

(***************************************************************************)
(* Properties                                                              *)
(***************************************************************************)
\* WriteFuncCall has returned
Called == pc \in {"called", "ended"}

\* the 0-based indices of the argument list
ArgIdx == 0..(Len(args) - 1)

\* the argument with 0-based index i was moved into a register
InReg(i) == i < Len(wfc.dstRegs)

\* the 0-based indices of the arguments left for the stack
Spilled == {i \in ArgIdx : ~InReg(i)}

\* displacement of the stack pointer, in bytes, by one instruction: a push or
\* pop moves it by one 8-byte slot
SpDelta(insn) ==
    CASE insn.op \in {"PushReg", "PushImm8", "PushImm32"} -> 0 - 8
      [] insn.op = "PopReg" -> 8
      [] insn.op = "SubImm32" /\ insn.r1 = RSP -> 0 - ValueOf(insn.imm)
      [] insn.op = "AddImm32" /\ insn.r1 = RSP -> ValueOf(insn.imm)
      [] OTHER -> 0

RECURSIVE SpDisp(_)
SpDisp(is) == IF is = <<>> THEN 0 ELSE SpDelta(is[1]) + SpDisp(Tail(is))

IsPush(insn) == insn.op \in {"PushReg", "PushImm8", "PushImm32"}

NumPushes(is) == Cardinality({k \in 1..Len(is) : IsPush(is[k])})

Reverse(s) == [k \in 1..Len(s) |-> s[Len(s) + 1 - k]]

\* C1: in the sequence emitted by Begin, WriteFuncCall and End the stack
\* pointer at the return instruction equals its value at entry.
C1_NetStackZero ==
    pc = "ended" => SpDisp(SubSeq(insns, 1, Len(insns) - 1)) = 0

\* number of arguments before index i that are of the register class of argument i
SameClassBefore(i) ==
    Cardinality({j \in 0..(i - 1) :
                    IsFloat(args[j + 1].type) = IsFloat(args[i + 1].type)})

ClassCount(i) ==
    IF IsFloat(args[i + 1].type)
    THEN Len(g_amd64FltParams(abi)) ELSE Len(g_amd64IntParams(abi))

\* C2: every argument is classified independently: it is assigned a register
\* exactly when the cursor of its own class has not exhausted the class's
\* register list, whatever happened to earlier arguments of the other class.
C2_IndependentClassification ==
    Called => \A i \in ArgIdx : InReg(i) <=> SameClassBefore(i) < ClassCount(i)

\* C3: the number of pushes WriteFuncCall emits equals the number of arguments
\* minus the number of arguments it assigned to a register.
C3_PushCount ==
    Called => NumPushes(wfc.insns) = Len(args) - Len(wfc.dstRegs)

\* the arguments on the stack after the last push, from the lowest address upward
StackLayout == Reverse(wfc.pushed)

\* C4: after the last push the spilled arguments lie on the stack in
\* declaration order from the lowest address upward, the first-declared
\* spilled argument closest to the call.
C4_StackOrder ==
    Called =>
        StackLayout = [k \in 1..(Len(args) - Len(wfc.dstRegs)) |->
                          Len(wfc.dstRegs) + k - 1]

NumAssigned(regs) == Cardinality({k \in 1..Len(wfc.dstRegs) : wfc.dstRegs[k] \in regs})

\* C5: the number of arguments assigned to integer registers never exceeds
\* the size of the integer parameter table, and the number assigned to
\* floating-point registers never exceeds the size of the float table.
C5_RegisterCounts ==
    Called =>
        /\ NumAssigned(GPRegs) <= Len(g_amd64IntParams(abi))
        /\ NumAssigned(XMMRegs) <= Len(g_amd64FltParams(abi))

\* a call with more integer arguments than the integer table holds
C5_Witness ==
    /\ pc = "called"
    /\ Cardinality({i \in ArgIdx : ~IsFloat(args[i + 1].type)}) > Len(g_amd64IntParams(abi))
    /\ wfc.numIntRegs = Len(g_amd64IntParams(abi))
    /\ Spilled # {}

\* C6: within one WriteFuncCall no physical register is assigned to two
\* different arguments.
C6_DistinctRegisters ==
    Called =>
        \A i, j \in 1..Len(wfc.dstRegs) : i # j => wfc.dstRegs[i] # wfc.dstRegs[j]

\* a call that filled the whole integer table and used float registers too
C6_Witness ==
    /\ pc = "called"
    /\ wfc.numIntRegs = Len(g_amd64IntParams(abi))
    /\ wfc.numFltRegs >= 1

\* C7: when a Float or Double argument is assigned to a floating-point
\* register the build reports an unsupported-operation failure.
C7_FloatLoadRejected ==
    (Called /\ \E k \in 1..Len(wfc.dstRegs) : wfc.dstRegs[k] \in XMMRegs) => failed

\* C8: a far call is rejected, and the near indirect call of farCall = false
\* is not emitted for it.
C8_FarCallRejected ==
    (Called /\ wfc.farCall) =>
        /\ failed
        /\ wfc.insns # WriteFuncCallRun(abi, args, wfc.addr, wfc.conv, FALSE).insns

IntTypes == {"Byte", "Word", "DWord", "QWord", "Ptr"}

FourIntArgs == Len(args) = 4 /\ \A k \in 1..4 : args[k].type \in IntTypes

DstRegsFor(conv) == WriteFuncCallRun(abi, args, wfc.addr, conv, wfc.farCall).dstRegs

\* C9: for four integer arguments two different conv values select the two
\* ABI tables: one assigns RCX, RDX, R8, R9 and another RDI, RSI, RDX, RCX.
C9_ConvSelectsTable ==
    (Called /\ FourIntArgs) =>
        \E c1, c2 \in JITCallConvs :
            /\ c1 # c2
            /\ DstRegsFor(c1) = <<RCX, RDX, R8, R9>>
            /\ DstRegsFor(c2) = <<RDI, RSI, RDX, RCX>>

\* the instruction begins with a REX prefix that has an extension bit (R, X or B) set
HasExtPrefix(insn) ==
    /\ insn.bytes[1] \in REX_Prefix..(REX_Prefix + 15)
    /\ BitAnd(insn.bytes[1], 7) # 0

RegOperands(insn) == {insn.r1, insn.r2} \ {NoReg}

\* C10: a primitive emits a prefix byte with a register-extension bit exactly
\* when one of its register operands is one of R8..R15.
C10_ExtensionPrefix ==
    pc = "emitted" =>
        LET insn == insns[Len(insns)]
        IN  RegOperands(insn) # {} =>
                ((\E r \in RegOperands(insn) : r \in R8..R15) <=> HasExtPrefix(insn))

\* number of bytes of the value union that an argument type occupies
TypeWidth(type) ==
    CASE type = "Byte" -> 1
      [] type = "Word" -> 2
      [] type \in {"DWord", "Float"} -> 4
      [] OTHER -> 8

\* the argument with every payload bit above the width of its type cleared
InWidth(arg) ==
    [type |-> arg.type,
     value |-> [k \in 1..8 |-> IF k <= TypeWidth(arg.type) THEN arg.value[k] ELSE 0]]

InWidthArgs == [k \in 1..Len(args) |-> InWidth(args[k])]

\* C11: the bytes WriteFuncCall emits depend only on the payload bits inside
\* the width of each argument's type: they are the bytes emitted for the list
\* whose payload bits above that width are cleared.
C11_PayloadWidth ==
    Called =>
        Flatten(wfc.insns) =
            Flatten(WriteFuncCallRun(abi, InWidthArgs, wfc.addr, wfc.conv, wfc.farCall).insns)

\* the requested offset as the CPU would have to read it
FitsSByte(offset) ==
    \/ offset[1] < 128 /\ \A k \in 2..4 : offset[k] = 0
    \/ offset[1] >= 128 /\ \A k \in 2..4 : offset[k] = 255

\* an 8-bit displacement as the CPU sign-extends it to 32 bits
SignExtend8(b) == <<b>> \o [k \in 1..3 |-> IF b >= 128 THEN 255 ELSE 0]

\* position of the ModR/M byte: after the opcode, which follows an optional REX prefix
ModRMPos(insn) == IF insn.bytes[1] \in REX_Prefix..(REX_Prefix + 15) THEN 3 ELSE 2

ModField(insn) == insn.bytes[ModRMPos(insn)] \div 64

\* the displacement bytes of a MovMemImm32 / MovMemReg: what lies between the
\* ModR/M byte and the 32-bit immediate (MovMemImm32) or the end (MovMemReg)
DispField(insn) ==
    SubSeq(insn.bytes, ModRMPos(insn) + 1,
           Len(insn.bytes) - (IF insn.op = "MovMemImm32" THEN 4 ELSE 0))

\* C12: offset 0 emits no displacement, a non-zero offset that fits in a
\* signed byte the 1-byte form (mod = 01), every other offset the 4-byte form
\* (mod = 10), and the displacement the CPU reads equals the requested offset.
C12_Displacement ==
    pc = "emitted" =>
        LET insn == insns[Len(insns)]
        IN  insn.op \in {"MovMemImm32", "MovMemReg"} =>
                IF IsZero(insn.disp)
                THEN ModField(insn) = 0 /\ DispField(insn) = <<>>
                ELSE IF FitsSByte(insn.disp)
                THEN /\ ModField(insn) = 1
                     /\ Len(DispField(insn)) = 1
                     /\ SignExtend8(DispField(insn)[1]) = insn.disp
                ELSE ModField(insn) = 2 /\ DispField(insn) = insn.disp

\* the push instructions WriteFuncCall emitted, in order: the k-th is the push
\* of the argument with index wfc.pushed[k]
PushInsns == SelectSeq(wfc.insns, IsPush)

\* C13: a spilled Byte argument is pushed as 6A ib and a spilled Word argument
\* as the 32-bit immediate push 68 id with the word zero-extended, each one
\* full stack slot; no push behind the operand-size prefix 66h (102), which
\* would move the stack pointer by 2 bytes, is emitted.
C13_WidthPromotion ==
    Called =>
        /\ Len(PushInsns) = Len(wfc.pushed)
        /\ \A i \in Spilled :
              args[i + 1].type \in {"Byte", "Word"} =>
                  \E k \in 1..Len(wfc.pushed) : wfc.pushed[k] = i
        /\ \A k \in 1..Len(wfc.pushed) :
              LET arg == args[wfc.pushed[k] + 1]
                  bytes == PushInsns[k].bytes
              IN  /\ bytes[1] # 102
                  /\ arg.type = "Byte" =>
                        bytes = <<Opcode_PushImm8, arg.value[1]>>
                  /\ arg.type = "Word" =>
                        bytes = <<Opcode_PushImm, arg.value[1], arg.value[2], 0, 0>>

\* a call that spilled a Byte and a Word argument
C13_Witness ==
    /\ pc = "called"
    /\ \E i \in Spilled : args[i + 1].type = "Byte" /\ args[i + 1].value[1] # 0
    /\ \E i \in Spilled : args[i + 1].type = "Word" /\ args[i + 1].value[2] # 0

(***************************************************************************)
(* An abstract AMD64 machine that executes the bytes of the CodeBuffer.    *)
(* A register or stack slot holds [k |-> "imm", v |-> 8 bytes], the stack  *)
(* pointer of some moment [k |-> "sp", v |-> offset from its entry value], *)
(* or an unknown value: [k |-> "init", v |-> r] is what register r held at *)
(* entry and [k |-> "junk", v |-> 0] a slot nothing has written.           *)
(***************************************************************************)
MachineStart ==
    [regs |-> [r \in GPRegs |-> [k |-> "init", v |-> r]],
     sp |-> 0,
     mem |-> <<>>,
     calls |-> <<>>,
     status |-> "run"]

\* a 32-bit immediate as the CPU sign-extends it to 64 bits
SignExtend(bs) ==
    bs \o [k \in 1..(8 - Len(bs)) |-> IF bs[Len(bs)] >= 128 THEN 255 ELSE 0]

ReadReg(m, r) == IF r = RSP THEN [k |-> "sp", v |-> m.sp] ELSE m.regs[r]

ReadMem(m, o) == IF o \in DOMAIN m.mem THEN m.mem[o] ELSE [k |-> "junk", v |-> 0]

DoPush(m, val) ==
    [m EXCEPT !.sp = m.sp - 8, !.mem = ((m.sp - 8) :> val) @@ m.mem]

\* the register the called function reads its first integer argument from:
\* the platform's ABI, whatever the assembler's tables say
TargetArgReg(a) == IF a = "Win64" THEN RCX ELSE RDI

\* the called function: returns its single integer argument unchanged and
\* leaves the stack pointer as it found it
CallTarget(a, m, target) ==
    [m EXCEPT !.regs[RAX] = m.regs[TargetArgReg(a)],
              !.calls = Append(m.calls, target)]

\* execute the instruction at position p and what follows it, up to 'ret'
RECURSIVE Exec(_, _, _, _)
Exec(a, bs, p, m) ==
    IF p > Len(bs) THEN [m EXCEPT !.status = "fell off the end"]
    ELSE
    LET hasRex == bs[p] \in 64..79
        rexW == hasRex /\ (bs[p] \div 8) % 2 = 1
        rexR == hasRex /\ (bs[p] \div 4) % 2 = 1
        rexB == hasRex /\ bs[p] % 2 = 1
        q == IF hasRex THEN p + 1 ELSE p
        op == bs[q]
        modrm == bs[q + 1]
        mod == modrm \div 64
        reg == ((modrm \div 8) % 8) + (IF rexR THEN 8 ELSE 0)
        rm == (modrm % 8) + (IF rexB THEN 8 ELSE 0)
        low == (op % 8) + (IF rexB THEN 8 ELSE 0)
        fault == [m EXCEPT !.status = "fault"]
    IN  CASE op \in 80..87 ->
                Exec(a, bs, q + 1, DoPush(m, ReadReg(m, low)))
          [] op \in 88..95 ->
                IF low = RSP THEN fault
                ELSE Exec(a, bs, q + 1,
                          [m EXCEPT !.regs[low] = ReadMem(m, m.sp), !.sp = m.sp + 8])
          [] op = 106 ->
                Exec(a, bs, q + 2,
                     DoPush(m, [k |-> "imm", v |-> SignExtend(SubSeq(bs, q + 1, q + 1))]))
          [] op = 104 ->
                Exec(a, bs, q + 5,
                     DoPush(m, [k |-> "imm", v |-> SignExtend(SubSeq(bs, q + 1, q + 4))]))
          [] op = 137 ->
                IF mod # 3 \/ rm = RSP THEN fault
                ELSE Exec(a, bs, q + 2, [m EXCEPT !.regs[rm] = ReadReg(m, reg)])
          [] op = 129 ->
                IF mod # 3 \/ rm # RSP \/ (modrm \div 8) % 8 \notin {0, 5} THEN fault
                ELSE LET n == ValueOf(SubSeq(bs, q + 2, q + 3))
                     IN  Exec(a, bs, q + 6,
                              [m EXCEPT !.sp = IF (modrm \div 8) % 8 = 0
                                               THEN m.sp + n ELSE m.sp - n])
          [] op \in 184..191 ->
                IF low = RSP THEN fault
                ELSE IF rexW
                THEN Exec(a, bs, q + 9,
                          [m EXCEPT !.regs[low] = [k |-> "imm", v |-> SubSeq(bs, q + 1, q + 8)]])
                ELSE Exec(a, bs, q + 5,
                          [m EXCEPT !.regs[low] =
                              [k |-> "imm", v |-> ZeroExtend(SubSeq(bs, q + 1, q + 4), 8)]])
          [] op = 255 ->
                IF mod # 3 \/ (modrm \div 8) % 8 # 2 \/ rm = RSP THEN fault
                ELSE Exec(a, bs, q + 2, CallTarget(a, m, m.regs[rm]))
          [] op = 195 -> [m EXCEPT !.status = "ret"]
          [] OTHER -> fault

\* the argument list holds the single integer argument 42
SingleInt42 ==
    Len(args) = 1 /\ args[1].type \in IntTypes /\ args[1].value = Bytes(8, 42)

\* C14: executing the code emitted by Begin, WriteFuncCall and End for a
\* target that returns its single integer argument, with ArgList = [42],
\* reaches 'ret' after calling the target once, with 42 in RAX.
C14_RoundTrip ==
    (pc = "ended" /\ SingleInt42) =>
        LET m == Exec(abi, code, 1, MachineStart)
        IN  /\ m.status = "ret"
            /\ Len(m.calls) = 1
            /\ m.calls[1].k = "imm"
            /\ m.calls[1].v = wfc.addr
            /\ m.regs[RAX].k = "imm"
            /\ m.regs[RAX].v = Bytes(8, 42)

\* a finished trampoline for the single DWord argument 42
C14_Witness ==
    pc = "ended" /\ SingleInt42 /\ args[1].type = "DWord"

\* the instructions of WriteFuncCall that load an immediate into register r
LoadsOf(r) ==
    SelectSeq(wfc.insns,
              LAMBDA x : x.op \in {"MovRegImm32", "MovRegImm64"} /\ x.r1 = r)

\* C16: every argument assigned to a register in R8..R15 is loaded with
\* MovRegImm64 whatever its type, and MovRegImm32 is emitted only for
\* registers outside R8..R15.
C16_ExtendedRegsUse64 ==
    Called =>
        /\ \A k \in 1..Len(wfc.dstRegs) :
              wfc.dstRegs[k] \in R8..R15 =>
                  /\ Len(LoadsOf(wfc.dstRegs[k])) = 1
                  /\ LoadsOf(wfc.dstRegs[k])[1].op = "MovRegImm64"
                  /\ LoadsOf(wfc.dstRegs[k])[1].imm = args[k].value
                  /\ Len(LoadsOf(wfc.dstRegs[k])[1].bytes) = 10
        /\ \A j \in 1..Len(wfc.insns) :
              wfc.insns[j].op = "MovRegImm32" => wfc.insns[j].r1 \notin R8..R15

\* a call whose arguments in R8 and R9 are a Byte and a Word
C16_Witness ==
    /\ pc = "called"
    /\ \E k \in 1..Len(wfc.dstRegs) : wfc.dstRegs[k] = R8 /\ args[k].type = "Byte"
    /\ \E k \in 1..Len(wfc.dstRegs) : wfc.dstRegs[k] = R9 /\ args[k].type = "Word"

\* the register WriteFuncCall loads the function address into: the operand
\* of the instruction before its final CallNear
CallTargetReg == wfc.insns[Len(wfc.insns) - 1].r1

ParamRegs(a) ==
    {g_amd64IntParams(a)[k] : k \in 1..Len(g_amd64IntParams(a))}
        \cup {g_amd64FltParams(a)[k] : k \in 1..Len(g_amd64FltParams(a))}

\* C17: the register the function address is loaded into is in no parameter
\* table of either ABI, so it is none of the registers holding an argument.
C17_ScratchRegister ==
    Called =>
        /\ wfc.insns[Len(wfc.insns)].op = "CallNear"
        /\ wfc.insns[Len(wfc.insns)].r1 = CallTargetReg
        /\ wfc.insns[Len(wfc.insns) - 1].op = "MovRegImm64"
        /\ \A a \in ABIs : CallTargetReg \notin ParamRegs(a)
        /\ \A k \in 1..Len(wfc.dstRegs) : wfc.dstRegs[k] # CallTargetReg

\* a call that filled every integer parameter register
C17_Witness ==
    /\ pc = "called"
    /\ wfc.numIntRegs = Len(g_amd64IntParams(abi))

IsArgInsn(x) == x.op \in {"MovRegImm32", "MovRegImm64", "PushImm8", "PushImm32"}

\* C18: the prologue (push RBP; mov RBP,RSP; sub RSP,0x20) comes first, every
\* argument load and push precedes the load of the function address and the
\* call, exactly one call is emitted, and the epilogue (add RSP by the
\* constant of the prologue; pop RBP; ret) follows the call.
C18_EventOrder ==
    pc = "ended" =>
        LET n == Len(insns)
        IN  /\ n >= 8
            /\ insns[1].op = "PushReg" /\ insns[1].r1 = RBP
            /\ insns[2].op = "MovReg" /\ insns[2].r1 = RBP /\ insns[2].r2 = RSP
            /\ insns[3].op = "SubImm32" /\ insns[3].r1 = RSP
            /\ insns[3].imm = Bytes(4, 32)
            /\ \A j \in 4..(n - 5) : IsArgInsn(insns[j])
            /\ insns[n - 4].op = "MovRegImm64" /\ insns[n - 4].imm = wfc.addr
            /\ insns[n - 3].op = "CallNear" /\ insns[n - 3].r1 = insns[n - 4].r1
            /\ Cardinality({j \in 1..n : insns[j].op = "CallNear"}) = 1
            /\ insns[n - 2].op = "AddImm32" /\ insns[n - 2].r1 = RSP
            /\ insns[n - 2].imm = insns[3].imm
            /\ insns[n - 1].op = "PopReg" /\ insns[n - 1].r1 = RBP
            /\ insns[n].op = "RetNear"
            /\ code = Flatten(insns)

\* a finished trampoline with register loads and pushes
C18_Witness ==
    /\ pc = "ended"
    /\ Len(wfc.dstRegs) >= 2
    /\ Len(wfc.pushed) >= 2

\* C19: CallNear(reg) emits exactly two bytes: FF, then a ModR/M byte with
\* mod = 11, sub-opcode 2 and the register's encoding (its low three bits) in
\* r/m; FF D0 for RAX.
C19_CallNearEncoding ==
    pc = "emitted" =>
        LET insn == insns[Len(insns)]
        IN  insn.op = "CallNear" =>
                /\ Len(insn.bytes) = 2
                /\ insn.bytes[1] = 255
                /\ insn.bytes[2] \div 64 = 3
                /\ (insn.bytes[2] \div 8) % 8 = 2
                /\ insn.bytes[2] % 8 = insn.r1 % 8
                /\ insn.r1 = RAX => insn.bytes = <<255, 208>>
                /\ code = Flatten(SubSeq(insns, 1, Len(insns) - 1)) \o insn.bytes

\* CallNear(RAX) has been emitted
C19_Witness ==
    /\ pc = "emitted"
    /\ insns[Len(insns)].op = "CallNear"
    /\ insns[Len(insns)].r1 = RAX

(***************************************************************************)
(* Every operation that emits: the trampoline operations and the           *)
(* primitives on their own                                                 *)
(***************************************************************************)
InitAll == Init \/ InitEnc

NextAll == Next \/ NextEnc

SpecAll == InitAll /\ [][NextAll]_vars

\* C20: every operation only appends: the buffer before the operation is a
\* prefix of the buffer after it.
C20_AppendOnly ==
    [][Len(code') >= Len(code) /\ SubSeq(code', 1, Len(code)) = code]_vars

\* a primitive has appended to a buffer that already held a prologue
C20_Witness ==
    /\ pc = "emitted"
    /\ Len(insns) = Len(BeginInsns) + 1
    /\ Len(code) > Len(Flatten(BeginInsns))

(***************************************************************************)
(* Two assemblers building one trampoline each, their steps interleaved.   *)
(* A step is Begin, the initialisation of WriteFuncCall's locals, one      *)
(* iteration of either loop, the final call, or End.                       *)
(***************************************************************************)
Threads == {1, 2}

\* longest mixed tail of an argument list in the concurrent build
MaxParArgs == 1

ParTypes == {"DWord", "Float"}

ParTypeLists ==
    {Run("DWord", k) \o ts :
        k \in {0, 6}, ts \in UNION {[1..n -> ParTypes] : n \in 0..MaxParArgs}}

\* the threads use different payloads, so their bytes differ
ParPayload(t) == IF t = 1 THEN Bytes(8, 42) ELSE <<239, 205, 171, 137, 103, 69, 35, 129>>

\* one frame for every thread's call, as if the locals had static storage
FrameShared(t) == 1

\* the frame holding the locals (numIntRegs, numFltRegs, lastInt, lastFlt)
\* of thread t's call of WriteFuncCall: automatic variables, one set per call
FrameOf(t) == t

NoFrame == [numIntRegs |-> 0, numFltRegs |-> 0, lastInt |-> NoIndex, lastFlt |-> NoIndex]

InitPar ==
    /\ abi \in ABIs
    /\ args = <<>>
    /\ pc = "par"
    /\ code = <<>>
    /\ insns = <<>>
    /\ wfc = NoCall
    /\ failed = FALSE
    /\ \E l1 \in ParTypeLists, l2 \in ParTypeLists :
          thr = [asm |-> [t \in Threads |->
                            [args |-> MkArgs(IF t = 1 THEN l1 ELSE l2, ParPayload(t)),
                             pos |-> "start", i |-> 0, addr |-> <<>>, code |-> <<>>]],
                 frame |-> [t \in Threads |-> NoFrame],
                 mixed |-> FALSE]
    /\ vf = NoFormat

\* thread t takes a step while another thread is in the middle of its build
Interleaves(t) ==
    \E u \in Threads \ {t} : thr.asm[u].pos \notin {"start", "done"}

\* thread t moves to position pos with loop index i, having appended bytes
ParStep(t, pos, i, bytes, frame) ==
    /\ pc = "par"
    /\ thr' = [asm |-> [thr.asm EXCEPT ![t].pos = pos, ![t].i = i,
                                      ![t].code = thr.asm[t].code \o bytes],
               frame |-> frame,
               mixed |-> thr.mixed \/ Interleaves(t)]
    /\ UNCHANGED <<abi, args, pc, code, insns, wfc, failed, vf>>

ParBegin(t) ==
    /\ thr.asm[t].pos = "start"
    /\ ParStep(t, "enter", 0, Flatten(BeginInsns), thr.frame)

\* lines 80-82: the locals are initialised
ParEnter(t) ==
    /\ thr.asm[t].pos = "enter"
    /\ ParStep(t, "regs", 0, <<>>, [thr.frame EXCEPT ![FrameOf(t)] = NoFrame])

\* one pass through the body of the first loop, or its exit
ParRegIter(t) ==
    /\ thr.asm[t].pos = "regs"
    /\ LET me == thr.asm[t]
           fr == thr.frame[FrameOf(t)]
           st == [numIntRegs |-> fr.numIntRegs, numFltRegs |-> fr.numFltRegs,
                  lastInt |-> fr.lastInt, lastFlt |-> fr.lastFlt,
                  dstRegs |-> <<>>, insns |-> <<>>]
       IN  IF me.i < Len(me.args)
              /\ Classify(abi, IsFloat(me.args[me.i + 1].type),
                          fr.numIntRegs, fr.numFltRegs).cls # "break"
           THEN LET nx == RegIter(abi, me.args[me.i + 1], me.i, st)
                IN  ParStep(t, "regs", me.i + 1, Flatten(nx.insns),
                            [thr.frame EXCEPT ![FrameOf(t)] =
                                [numIntRegs |-> nx.numIntRegs, numFltRegs |-> nx.numFltRegs,
                                 lastInt |-> nx.lastInt, lastFlt |-> nx.lastFlt]])
           ELSE ParStep(t, "stack", 0, <<>>, thr.frame)

\* one pass through the body of the second loop, or its exit
ParStackIter(t) ==
    /\ thr.asm[t].pos = "stack"
    /\ LET me == thr.asm[t]
           fr == thr.frame[FrameOf(t)]
           iRev == Len(me.args) - me.i - 1
       IN  IF me.i < Len(me.args)
              /\ ~AlreadyInReg(IsFloat(me.args[iRev + 1].type), iRev, fr.lastInt, fr.lastFlt)
           THEN ParStep(t, "stack", me.i + 1, Flatten(SpillArg(me.args[iRev + 1])), thr.frame)
           ELSE ParStep(t, "call", 0, <<>>, thr.frame)

ParCall(t, addr) ==
    /\ thr.asm[t].pos = "call"
    /\ pc = "par"
    /\ thr' = [thr EXCEPT !.asm[t].pos = "end", !.asm[t].addr = addr,
                          !.asm[t].code = thr.asm[t].code \o Flatten(CallInsns(addr)),
                          !.mixed = thr.mixed \/ Interleaves(t)]
    /\ UNCHANGED <<abi, args, pc, code, insns, wfc, failed, vf>>

ParEnd(t) ==
    /\ thr.asm[t].pos = "end"
    /\ ParStep(t, "done", 0, Flatten(EndInsns), thr.frame)

NextPar ==
    \E t \in Threads :
        \/ ParBegin(t)
        \/ ParEnter(t)
        \/ ParRegIter(t)
        \/ ParStackIter(t)
        \/ \E addr \in Addrs : ParCall(t, addr)
        \/ ParEnd(t)

SpecPar == InitPar /\ [][NextPar]_vars

\* the bytes of the trampoline thread t would have built alone
Alone(t) ==
    Flatten(BeginInsns
            \o WriteFuncCallRun(abi, thr.asm[t].args, thr.asm[t].addr, "CDecl", FALSE).insns
            \o EndInsns)

\* C15: two trampolines built concurrently on independent assemblers, their
\* steps interleaved in any order, each end with exactly the bytes they
\* would have if built alone.
C15_IndependentBuilds ==
    pc = "par" =>
        \A t \in Threads : thr.asm[t].pos = "done" => thr.asm[t].code = Alone(t)

\* both builds finished after interleaved steps, each with register
\* arguments and spilled arguments
C15_Witness ==
    /\ pc = "par"
    /\ thr.mixed
    /\ \A t \in Threads :
          /\ thr.asm[t].pos = "done"
          /\ Len(thr.asm[t].args) > 6
          /\ thr.frame[t].numIntRegs > 0

(***************************************************************************)
(* The two loops of WriteFuncCall divide the argument indices              *)
(***************************************************************************)
\* the indices hi, hi-1, ..., lo in this order
RECURSIVE Downto(_, _)
Downto(hi, lo) == IF hi < lo THEN <<>> ELSE <<hi>> \o Downto(hi - 1, lo)

\* the number of arguments the first loop gave a register
NumInRegs == Len(wfc.dstRegs)

\* C21: the first loop handles exactly a prefix 0..k-1 of the argument list,
\* stopping at the first argument it cannot assign; the second loop visits
\* exactly the indices n-1 down to k, each once, and stops at index k-1; its
\* scan stays inside 0..n-1, also for the empty list and when nothing was
\* assigned.
C21_PassesPartition ==
    Called =>
        LET n == Len(args)
            k == NumInRegs
        IN  /\ k <= n
            /\ k < n => Classify(abi, IsFloat(args[k + 1].type),
                                 wfc.numIntRegs, wfc.numFltRegs).cls = "break"
            /\ k > 0 => /\ k - 1 \in {wfc.lastInt, wfc.lastFlt}
                        /\ AlreadyInReg(IsFloat(args[k].type), k - 1,
                                        wfc.lastInt, wfc.lastFlt)
            /\ k = 0 => wfc.lastInt = NoIndex /\ wfc.lastFlt = NoIndex
            /\ wfc.visited = Downto(n - 1, k)
            /\ \A j \in 1..Len(wfc.visited) : wfc.visited[j] \in ArgIdx

\* a call whose list mixes integer and floating-point register arguments and
\* leaves arguments for the stack
C21_Witness ==
    /\ Called
    /\ wfc.numIntRegs > 0
    /\ wfc.numFltRegs > 0
    /\ Len(wfc.visited) >= 2
    /\ IsFloat(args[NumInRegs].type)

(***************************************************************************)
(* VertexFormat (VertexFormat.cpp): the list attributes_ and the running   *)
(* size formatSize_, changed by AddAttribute only.                         *)
(***************************************************************************)
\* most attributes added to one vertex format
MaxAttribs == 3

\* enum DataType
DataTypes == {"Float", "Double", "Byte", "UByte", "Short", "UShort", "Int", "UInt"}

\* GetDataTypeSize (TypeConversion.h): the size of one component in bytes
GetDataTypeSize(dataType) ==
    CASE dataType = "Float"  -> 4
      [] dataType = "Double" -> 8
      [] dataType = "Byte"   -> 1
      [] dataType = "UByte"  -> 1
      [] dataType = "Short"  -> 2
      [] dataType = "UShort" -> 2
      [] dataType = "Int"    -> 4
      [] dataType = "UInt"   -> 4

\* the argument check accepting every count but zero
BadComponentsZeroOnly(components) == components < 1

\* the condition under which AddAttribute throws std::invalid_argument
BadComponents(components) == components < 1 \/ components > 4

\* AddAttribute that increases the format size before it sets up the attribute
AddAttributeSizeFirst(v, name, dataType, components) ==
    IF BadComponents(components)
    THEN [v EXCEPT !.result = [kind |-> "invalid_argument", components |-> components]]
    ELSE LET size == v.formatSize + (GetDataTypeSize(dataType) * components)
             attrib == [dataType |-> dataType, components |-> components,
                        offset |-> size, name |-> name]
         IN  [attributes |-> Append(v.attributes, attrib),
              formatSize |-> size,
              calls |-> Append(v.calls, [name |-> name, dataType |-> dataType,
                                         components |-> components]),
              result |-> [kind |-> "ok", components |-> components]]

\* the vertex format after AddAttribute(name, dataType, components) on v;
\* 'calls' is the history of the calls that returned normally, 'result' the
\* outcome of this call
AddAttributeRun(v, name, dataType, components) ==
    IF BadComponents(components)
    THEN [v EXCEPT !.result = [kind |-> "invalid_argument", components |-> components]]
    ELSE LET attrib == [dataType |-> dataType, components |-> components,
                        offset |-> v.formatSize, name |-> name]
         IN  [attributes |-> Append(v.attributes, attrib),
              formatSize |-> v.formatSize + (GetDataTypeSize(dataType) * components),
              calls |-> Append(v.calls, [name |-> name, dataType |-> dataType,
                                         components |-> components]),
              result |-> [kind |-> "ok", components |-> components]]

\* inputs of the model
VFNames == {"position", "texCoord"}
VFDataTypes == {"Float", "UByte"}
VFComponents == 0..5

NoResult == [kind |-> "none", components |-> 0]

InitVF ==
    /\ abi = "Win64"
    /\ args = <<>>
    /\ pc = "vf"
    /\ code = <<>>
    /\ insns = <<>>
    /\ wfc = NoCall
    /\ failed = FALSE
    /\ thr = NoThreads
    /\ vf = [attributes |-> <<>>, formatSize |-> 0, calls |-> <<>>, result |-> NoResult]

AddAttribute(name, dataType, components) ==
    /\ pc = "vf"
    /\ BadComponents(components) \/ Len(vf.attributes) < MaxAttribs
    /\ vf' = AddAttributeRun(vf, name, dataType, components)
    /\ UNCHANGED <<abi, args, pc, code, insns, wfc, failed, thr>>

NextVF ==
    \E name \in VFNames, dataType \in VFDataTypes, components \in VFComponents :
        AddAttribute(name, dataType, components)

SpecVF == InitVF /\ [][NextVF]_vars

\* the bytes one attribute occupies
AttribSize(a) == GetDataTypeSize(a.dataType) * a.components

\* the bytes occupied by the first k attributes
RECURSIVE SizeBefore(_, _)
SizeBefore(as, k) == IF k = 0 THEN 0 ELSE SizeBefore(as, k - 1) + AttribSize(as[k])

\* C22: after any sequence of successful AddAttribute calls the attributes
\* are stored in call order, each attribute's offset is the sum of the sizes
\* of the attributes added before it, and formatSize is that sum over all
\* attributes; offsets never decrease and byte ranges never overlap.
C22_OffsetsAccumulate ==
    pc = "vf" =>
        LET as == vf.attributes
        IN  /\ Len(as) = Len(vf.calls)
            /\ \A k \in 1..Len(as) :
                  /\ as[k].name = vf.calls[k].name
                  /\ as[k].dataType = vf.calls[k].dataType
                  /\ as[k].components = vf.calls[k].components
                  /\ as[k].offset = SizeBefore(as, k - 1)
            /\ vf.formatSize = SizeBefore(as, Len(as))
            /\ \A k \in 1..(Len(as) - 1) :
                  /\ as[k].offset <= as[k + 1].offset
                  /\ as[k].offset + AttribSize(as[k]) <= as[k + 1].offset
            /\ \A k \in 1..Len(as) : as[k].offset + AttribSize(as[k]) <= vf.formatSize

\* three attributes of different sizes were added
C22_Witness ==
    /\ pc = "vf"
    /\ Len(vf.attributes) = 3
    /\ vf.attributes[1].dataType # vf.attributes[2].dataType
    /\ vf.attributes[2].components # vf.attributes[3].components
    /\ vf.attributes[3].offset > vf.attributes[2].offset
    /\ vf.result.kind = "ok"

\* C23: AddAttribute with components outside 1..4 fails with an
\* invalid-argument error and leaves the attribute list and formatSize
\* unchanged; every call with components in 1..4 succeeds and appends
\* exactly one attribute.
C23_ComponentsChecked ==
    [][pc = "vf" =>
        LET r == vf'.result
        IN  /\ r.components \notin 1..4 =>
                  /\ r.kind = "invalid_argument"
                  /\ vf'.attributes = vf.attributes
                  /\ vf'.formatSize = vf.formatSize
            /\ r.components \in 1..4 =>
                  /\ r.kind = "ok"
                  /\ Len(vf'.attributes) = Len(vf.attributes) + 1
                  /\ SubSeq(vf'.attributes, 1, Len(vf.attributes)) = vf.attributes]_vars

\* a call with five components was refused on a format that holds attributes
C23_Witness ==
    /\ pc = "vf"
    /\ vf.result.kind = "invalid_argument"
    /\ vf.result.components = 5
    /\ Len(vf.attributes) = 2
    /\ vf.formatSize > 0

====
